---- MODULE Spec2Model ----
(***************************************************************************)
(* ITP (Image Transfer Protocol): the client request codec, the server     *)
(* response codec, the sequence/clock singleton and the server's           *)
(* per-connection handler, modelled from the JavaScript sources.           *)
(*                                                                         *)
(* Representation.  A Buffer is a sequence of bytes (0..255), index 1 of   *)
(* the sequence being JavaScript index 0.  A JavaScript integer is kept in *)
(* sign/magnitude form [neg, mag], mag the binary digits most significant  *)
(* first without leading zeros, because the wire carries 32-bit unsigned   *)
(* fields and the encoders only ever look at Number.toString(2).  A value  *)
(* produced by the bitwise operators is a signed 32-bit integer and is     *)
(* kept as an integer.  A string is the sequence of its code points.       *)
(***************************************************************************)
EXTENDS Integers, Sequences, FiniteSets, TLC

(***************************************************************************)
(* JavaScript numbers and Number.prototype.toString(2)                     *)
(***************************************************************************)

RECURSIVE NatDigits(_)
\* binary digits of an integer n >= 0, most significant first, <<>> for 0
NatDigits(n) == IF n = 0 THEN <<>> ELSE Append(NatDigits(n \div 2), n % 2)

RECURSIVE NegDigits(_)
\* binary digits of |v| for an integer v <= 0 (v may be -2^31, so -v is never formed)
NegDigits(v) ==
    IF v = 0 THEN <<>>
    ELSE LET r == v % 2 IN Append(NegDigits((v + r) \div 2), r)

\* the JavaScript number with the integer value i
Num(i) == [neg |-> i < 0, mag |-> IF i < 0 THEN NegDigits(i) ELSE NatDigits(i)]

\* the JavaScript number 2^k
Pow2Num(k) == [neg |-> FALSE, mag |-> <<1>> \o [i \in 1..k |-> 0]]

\* the JavaScript number 2^k - 1 (k one bits)
OnesNum(k) == [neg |-> FALSE, mag |-> [i \in 1..k |-> 1]]

\* data.toString(2): "-" for a negative number, then the digits, "0" for zero
ToString2(data) ==
    (IF data.neg THEN <<"-">> ELSE <<>>)
        \o (IF data.mag = <<>> THEN <<"0">>
            ELSE [i \in 1..Len(data.mag) |-> IF data.mag[i] = 1 THEN "1" ELSE "0"])

\* str.padStart(size, '0')
PadStart(str, size) ==
    IF Len(str) >= size THEN str ELSE [i \in 1..(size - Len(str)) |-> "0"] \o str

(***************************************************************************)
(* Bits of a byte                                                          *)
(***************************************************************************)

\* (byte >> bitIdx) & 1
BitOf(byte, bitIdx) == (byte \div (2 ^ bitIdx)) % 2

\* byte | (1 << bitIdx)
OrBit(byte, bitIdx) == IF BitOf(byte, bitIdx) = 1 THEN byte ELSE byte + 2 ^ bitIdx

\* byte & ~(1 << bitIdx)
AndNotBit(byte, bitIdx) == IF BitOf(byte, bitIdx) = 1 THEN byte - 2 ^ bitIdx ELSE byte

\* buffer[byteIdx] read by a bitwise operator: undefined counts as 0
Load(buffer, byteIdx) ==
    IF byteIdx + 1 \in 1..Len(buffer) THEN buffer[byteIdx + 1] ELSE 0

\* str[index] === '1' with a JavaScript (0-based) index; out of range is undefined
IsOne(str, index) == index + 1 \in 1..Len(str) /\ str[index + 1] = "1"

\* Buffer.alloc(n): n zero bytes
BufferAlloc(n) == [i \in 1..n |-> 0]

(***************************************************************************)
(* Server/ITPResponse.js: encodeBitSection                                 *)
(***************************************************************************)

RECURSIVE encodeBitLoop(_, _, _, _, _, _)
\* the for loop of encodeBitSection from iteration i on; a store past the end of
\* a Buffer is ignored
encodeBitLoop(buffer, binData, endBitPos, binIndex, i, length) ==
    IF i >= length THEN buffer
    ELSE IF endBitPos \div 8 >= Len(buffer)
         THEN encodeBitLoop(buffer, binData, endBitPos - 1, binIndex - 1, i + 1, length)
    ELSE LET byteIdx == endBitPos \div 8
             bitIdx == 7 - (endBitPos % 8)
             nb == IF IsOne(binData, binIndex) THEN OrBit(buffer[byteIdx + 1], bitIdx)
                   ELSE AndNotBit(buffer[byteIdx + 1], bitIdx)
         IN encodeBitLoop([buffer EXCEPT ![byteIdx + 1] = nb], binData,
                          endBitPos - 1, binIndex - 1, i + 1, length)

\* the mutant: only the digits the unpadded string has are written; the bits
\* above them keep what the buffer held
encodeBitSection_keepsAboveDigits(buffer, data, start, length) ==
    LET binData == ToString2(data)
    IN encodeBitLoop(buffer, binData, start + length - 1, Len(binData) - 1, 0,
                     IF Len(binData) < length THEN Len(binData) ELSE length)

\* the mutant: the last bit position is taken one too far (start + length)
encodeBitSection_endOffByOne(buffer, data, start, length) ==
    LET binData == ToString2(data)
    IN encodeBitLoop(buffer, binData, start + length, Len(binData) - 1, 0, length)

encodeBitSection(buffer, data, start, length) ==
    LET binData == ToString2(data)
    IN encodeBitLoop(buffer, binData, start + length - 1, Len(binData) - 1, 0, length)

(***************************************************************************)
(* Client/ITPRequest.js: insertData                                        *)
(***************************************************************************)

RECURSIVE insertLoop(_, _, _, _, _)
\* the for loop of insertData from bit i down to position; a store past the end
\* of a Buffer is ignored
insertLoop(buffer, binaryStr, binaryIndex, i, position) ==
    IF i < position THEN buffer
    ELSE IF i \div 8 >= Len(buffer)
         THEN insertLoop(buffer, binaryStr, binaryIndex - 1, i - 1, position)
    ELSE LET byteIdx == i \div 8
             bitIdx == 7 - (i % 8)
             nb == IF IsOne(binaryStr, binaryIndex) THEN OrBit(buffer[byteIdx + 1], bitIdx)
                   ELSE AndNotBit(buffer[byteIdx + 1], bitIdx)
         IN insertLoop([buffer EXCEPT ![byteIdx + 1] = nb], binaryStr, binaryIndex - 1,
                       i - 1, position)

insertData(buffer, data, position, size) ==
    LET binaryStr == PadStart(ToString2(data), size)
    IN insertLoop(buffer, binaryStr, Len(binaryStr) - 1, position + size - 1, position)

(***************************************************************************)
(* extractDataBits (server) and extractBits (client)                       *)
(***************************************************************************)

\* (value << 1) | bit on a signed 32-bit value: bit 30 moves into the sign bit
Shl1Or(value, bit) ==
    LET low30 == value % 1073741824
        b30 == (value \div 1073741824) % 2
        lo == 2 * low30 + bit
    IN IF b30 = 1 THEN (lo - 2147483647) - 1 ELSE lo

RECURSIVE extractDataLoop(_, _, _, _, _)
extractDataLoop(packet, offset, len, i, value) ==
    IF i >= len THEN value
    ELSE LET byteIdx == (offset + i) \div 8
             bitIdx == 7 - ((offset + i) % 8)
             bit == BitOf(Load(packet, byteIdx), bitIdx)
         IN extractDataLoop(packet, offset, len, i + 1, Shl1Or(value, bit))

\* server: extractDataBits(packet, offset, len), a signed 32-bit integer
extractDataBits(packet, offset, len) == extractDataLoop(packet, offset, len, 0, 0)

RECURSIVE extractBitsLoop(_, _, _, _, _)
extractBitsLoop(packet, offset, length, i, value) ==
    IF i >= length THEN value
    ELSE LET byteIndex == (offset + i) \div 8
             bitIndex == 7 - ((offset + i) % 8)
             bit == BitOf(Load(packet, byteIndex), bitIndex)
         IN extractBitsLoop(packet, offset, length, i + 1, Shl1Or(value, bit))

\* client: extractBits(packet, offset, length), a signed 32-bit integer
extractBits(packet, offset, length) == extractBitsLoop(packet, offset, length, 0, 0)

(***************************************************************************)
(* Strings on the wire: toByteArr, Buffer.write (UTF-8), Buffer.toString   *)
(***************************************************************************)

\* char.charCodeAt(0) of one code point: the point itself in the basic plane,
\* else the high surrogate of its UTF-16 pair
charCodeAt0(cp) == IF cp < 65536 THEN cp ELSE 55296 + ((cp - 65536) \div 1024)

RECURSIVE codeBytes(_)
\* do { bytes.push(code & 0xFF); code >>= 8 } while (code), then bytes.reverse()
codeBytes(code) ==
    IF code \div 256 = 0 THEN <<code % 256>>
    ELSE Append(codeBytes(code \div 256), code % 256)

RECURSIVE toByteArr(_)
toByteArr(str) ==
    IF str = <<>> THEN <<>>
    ELSE codeBytes(charCodeAt0(Head(str))) \o toByteArr(Tail(str))

calculateNameLength(name) == Len(toByteArr(name))

\* the UTF-8 bytes of one code point (Buffer.write's default encoding)
Utf8Char(cp) ==
    IF cp < 128 THEN <<cp>>
    ELSE IF cp < 2048 THEN <<192 + (cp \div 64), 128 + (cp % 64)>>
    ELSE IF cp < 65536
         THEN <<224 + (cp \div 4096), 128 + ((cp \div 64) % 64), 128 + (cp % 64)>>
    ELSE <<240 + (cp \div 262144), 128 + ((cp \div 4096) % 64),
           128 + ((cp \div 64) % 64), 128 + (cp % 64)>>

RECURSIVE BufferWrite(_, _, _)
\* buffer.write(string, offset): the UTF-8 bytes of the leading characters that
\* fit whole between offset and the end of the buffer; the rest is not written
BufferWrite(buffer, string, offset) ==
    IF string = <<>> THEN buffer
    ELSE LET bytes == Utf8Char(Head(string))
         IN IF offset + Len(bytes) > Len(buffer) THEN buffer
            ELSE BufferWrite([i \in 1..Len(buffer) |->
                                 IF i \in (offset + 1)..(offset + Len(bytes))
                                 THEN bytes[i - offset] ELSE buffer[i]],
                             Tail(string), offset + Len(bytes))

\* buf.slice(start, end): both ends clamped to the buffer
BufferSlice(buf, start, end) ==
    SubSeq(buf, start + 1, IF end < Len(buf) THEN end ELSE Len(buf))

RECURSIVE BufferToString(_)
\* buf.toString(): UTF-8 decoding, every ill-formed maximal subpart read as U+FFFD
BufferToString(bytes) ==
    IF bytes = <<>> THEN <<>>
    ELSE LET n == Len(bytes)
             b1 == bytes[1]
             from(k) == BufferToString(SubSeq(bytes, k, n))
             cont(k) == n >= k /\ bytes[k] \in 128..191
             lo2 == IF b1 = 224 THEN 160 ELSE IF b1 = 240 THEN 144 ELSE 128
             hi2 == IF b1 = 237 THEN 159 ELSE IF b1 = 244 THEN 143 ELSE 191
             ok2 == n >= 2 /\ bytes[2] \in lo2..hi2
         IN IF b1 < 128 THEN <<b1>> \o from(2)
            ELSE IF b1 \in 194..223
                 THEN IF cont(2) THEN <<(b1 - 192) * 64 + (bytes[2] - 128)>> \o from(3)
                      ELSE <<65533>> \o from(2)
            ELSE IF b1 \in 224..239
                 THEN IF ~ok2 THEN <<65533>> \o from(2)
                      ELSE IF ~cont(3) THEN <<65533>> \o from(3)
                      ELSE <<(b1 - 224) * 4096 + (bytes[2] - 128) * 64
                             + (bytes[3] - 128)>> \o from(4)
            ELSE IF b1 \in 240..244
                 THEN IF ~ok2 THEN <<65533>> \o from(2)
                      ELSE IF ~cont(3) THEN <<65533>> \o from(3)
                      ELSE IF ~cont(4) THEN <<65533>> \o from(4)
                      ELSE <<(b1 - 240) * 262144 + (bytes[2] - 128) * 4096
                             + (bytes[3] - 128) * 64 + (bytes[4] - 128)>> \o from(5)
            ELSE <<65533>> \o from(2)

(***************************************************************************)
(* Client/ITPRequest.js: the request encoder                               *)
(***************************************************************************)

\* bytes of the fixed header, request and response alike
HeaderBytes == 12

\* init: the module's packetDetails after initialize(...)
initialize(version, actionType, timeMark, imgType, imgName) ==
    [version |-> version, actionType |-> actionType, timeMark |-> timeMark,
     imgType |-> imgType, imgName |-> imgName,
     nameLength |-> calculateNameLength(imgName)]

\* getBytePacket: the request packet built from packetDetails
getPacket(packetDetails) ==
    LET b0 == BufferAlloc(HeaderBytes + packetDetails.nameLength)
        b1 == insertData(b0, packetDetails.version, 0, 4)
        b2 == insertData(b1, packetDetails.actionType, 30, 2)
        b3 == insertData(b2, packetDetails.timeMark, 32, 32)
        b4 == insertData(b3, packetDetails.imgType, 64, 4)
        b5 == insertData(b4, Num(packetDetails.nameLength), 68, 28)
    IN BufferWrite(b5, packetDetails.imgName, HeaderBytes)

(***************************************************************************)
(* Server: decoding a request                                              *)
(***************************************************************************)

getFileName(data) ==
    LET nameSize == extractDataBits(data, 68, 28)
    IN BufferToString(BufferSlice(data, HeaderBytes, HeaderBytes + nameSize))

extractDetails(data) ==
    [version |-> extractDataBits(data, 0, 4),
     timestamp |-> extractDataBits(data, 32, 32),
     imageType |-> extractDataBits(data, 64, 4),
     fileName |-> getFileName(data)]

mapTypeToExtension(type) ==
    CASE type = 1 -> "PNG"
      [] type = 2 -> "BMP"
      [] type = 3 -> "TIFF"
      [] type = 4 -> "JPEG"
      [] type = 5 -> "GIF"
      [] type = 15 -> "RAW"
      [] OTHER -> "unknown"

\* the path images/<fileName>.<extension>, kept as the pair it is joined from (an
\* extension holds no dot, so two pairs are one path only when they are equal)
constructFilePath(fileName, imageType) ==
    [name |-> fileName, ext |-> mapTypeToExtension(imageType)]

(***************************************************************************)
(* Server/ITPResponse.js: the response encoder                             *)
(***************************************************************************)

\* init: the module's responseDetails after configure(...)
configure(sequence, version, type, time, size) ==
    [sequence |-> sequence, versionNum |-> version, type |-> type,
     time |-> time, size |-> size]

\* getPacket: the 12-byte header built from responseDetails
assemblePacket(responseDetails) ==
    LET h0 == BufferAlloc(HeaderBytes)
        h1 == encodeBitSection(h0, responseDetails.versionNum, 0, 4)
        h2 == encodeBitSection(h1, responseDetails.type, 4, 2)
        h3 == encodeBitSection(h2, responseDetails.sequence, 6, 26)
        h4 == encodeBitSection(h3, responseDetails.time, 32, 32)
    IN encodeBitSection(h4, responseDetails.size, 64, 32)

(***************************************************************************)
(* Client: decoding a response                                             *)
(***************************************************************************)

\* processHeader: the fields the client reads from the header
processHeader(header) ==
    [version |-> extractBits(header, 0, 4),
     type |-> extractBits(header, 4, 2),
     sequence |-> extractBits(header, 6, 26),
     timestamp |-> extractBits(header, 32, 32)]

(***************************************************************************)
(* Server/Singleton.js: the sequence counter and the clock                 *)
(***************************************************************************)

\* the largest sequence number (sequenceNum % 999, Math.random() * 999)
SeqModulus == 999

\* the seeds Math.floor(Math.random() * 999) + 1 can produce
Seeds == 1..SeqModulus

\* the mutant: the counter wraps at 1000 instead of 999
incrementSequence_wrapAt1000(sequenceNum) == (sequenceNum % 1000) + 1

\* the mutant: the advance from 998 is lost
incrementSequence_lostAt998(sequenceNum) ==
    IF sequenceNum = 998 THEN 998 ELSE (sequenceNum % 999) + 1

\* the mutant: the wrap is taken after the increment, so 998 is followed by 0
incrementSequence_wrapAfter(sequenceNum) == (sequenceNum + 1) % SeqModulus

\* incrementSequence: the new value of sequenceNum, which is also returned
incrementSequence(sequenceNum) == (sequenceNum % SeqModulus) + 1

\* 1 << count: JavaScript takes the shift count modulo 32
ShiftLeftOne(count) ==
    LET c == count % 32 IN IF c = 31 THEN (-2147483647) - 1 ELSE 2 ^ c

RECURSIVE BitAnd(_, _)
\* a & b for non-negative signed 32-bit operands
BitAnd(a, b) ==
    IF a = 0 \/ b = 0 THEN 0
    ELSE (a % 2) * (b % 2) + 2 * BitAnd(a \div 2, b \div 2)

\* incrementTimestamp: timeMark = (timeMark + 1) & ((1 << 32) - 1)
incrementTimestamp(timeMark) == BitAnd(timeMark + 1, ShiftLeftOne(32) - 1)

(***************************************************************************)
(* State                                                                   *)
(***************************************************************************)

VARIABLES
    sequenceNum,            \* Singleton.js: the sequence counter
    timeMark,               \* Singleton.js: the clock
    seed, calls, ret,       \* the counter's seed, the calls made, the last value returned
    bBuf, bData, bPos, bSize, bOp, bOut,   \* one field encoding: inputs, encoder, result
    cKind, cIn, cWire, cOut, cPc,          \* one codec round trip
    responseDetails,        \* ITPResponse.js: the module's responseDetails
    files,                  \* the resource root: path -> contents
    request,                \* per connection: the packet the client wrote (<<>>: none yet)
    inflight,               \* per connection: request bytes not yet delivered
    accepted,               \* per connection: manageClient has run
    originalSequenceNumber, \* per connection: the number manageClient drew
    received,               \* per connection: the 'data' deliveries handled so far
    sent,                   \* per connection: the packets the socket accepted
    ended,                  \* per connection: sock.end() was called
    writeAfterEnd,          \* per connection: sock.write() was called after sock.end()
    crashed,                \* the server process died of an unhandled 'error' event
    imageName,              \* client: this.imageName, the -q argument
    now,                    \* client: the value Date.now() returned in initRequest
    cliState,               \* client: "idle", "connecting", "open", "closed" or "crashed"
    cliWrites,              \* client: the request packets it wrote to the socket
    respInflight,           \* response bytes not yet delivered to the client
    srvResponse,            \* the packet the server sent on the session (<<>>: none)
    cliData,                \* client: the 'data' deliveries handled so far
    localFile,              \* client: the file at the path this.imageName
    localFile0,             \* client: that file when the session started
    viewerCalls,            \* client: calls of viewer(this.imageName)
    cliEnded,               \* client: client.end() was called
    netEvent                \* the transport failure of the session ("none" if none)

seqVars == <<sequenceNum, timeMark, seed, calls, ret>>
bitVars == <<bBuf, bData, bPos, bSize, bOp, bOut>>
codecVars == <<cKind, cIn, cWire, cOut, cPc>>
sysVars == <<responseDetails, files, request, inflight, accepted,
             originalSequenceNumber, received, sent, ended, writeAfterEnd, crashed>>
cliVars == <<imageName, now, cliState, cliWrites, respInflight, srvResponse, cliData,
             localFile, localFile0, viewerCalls, cliEnded, netEvent>>
vars == <<seqVars, bitVars, codecVars, sysVars, cliVars>>

\* connections the model follows
MaxConns == 2
Conns == 1..MaxConns

\* the parts of the state a specification does not exercise
BitsIdle ==
    /\ bBuf = <<>> /\ bData = Num(0) /\ bPos = 0 /\ bSize = 0
    /\ bOp = "none" /\ bOut = <<>>

CodecIdle ==
    /\ cKind = "none" /\ cIn = <<>> /\ cWire = <<>> /\ cOut = <<>> /\ cPc = "idle"

SysIdle ==
    /\ responseDetails = configure(Num(0), Num(0), Num(0), Num(0), Num(0))
    /\ files = <<>>
    /\ request = [c \in Conns |-> <<>>]
    /\ inflight = [c \in Conns |-> <<>>]
    /\ accepted = [c \in Conns |-> FALSE]
    /\ originalSequenceNumber = [c \in Conns |-> 0]
    /\ received = [c \in Conns |-> <<>>]
    /\ sent = [c \in Conns |-> <<>>]
    /\ ended = [c \in Conns |-> FALSE]
    /\ writeAfterEnd = [c \in Conns |-> FALSE]
    /\ crashed = FALSE

\* a path of the client's disk: no file there, or a file with these bytes
NoFile == [exists |-> FALSE, bytes |-> <<>>]
File(bytes) == [exists |-> TRUE, bytes |-> bytes]

CliIdle ==
    /\ imageName = <<>> /\ now = Num(0) /\ cliState = "idle" /\ cliWrites = <<>>
    /\ respInflight = <<>> /\ srvResponse = <<>> /\ cliData = <<>>
    /\ localFile = NoFile /\ localFile0 = NoFile /\ viewerCalls = 0
    /\ cliEnded = FALSE /\ netEvent = "none"

(***************************************************************************)
(* SpecSeq: the Sequence/Clock Source on its own                           *)
(***************************************************************************)

\* calls to getSequenceNumber the model follows
MaxCalls == 1000

\* initialize(): sequenceNum is random in 1..999 and timeMark starts equal to it
SeqInit ==
    /\ sequenceNum \in Seeds
    /\ timeMark = sequenceNum
    /\ seed = sequenceNum
    /\ calls = 0
    /\ ret = 0
    /\ BitsIdle /\ CodecIdle /\ SysIdle
    /\ CliIdle

\* exports.getSequenceNumber()
GetSequenceNumber ==
    /\ calls < MaxCalls
    /\ sequenceNum' = incrementSequence(sequenceNum)
    /\ ret' = sequenceNum'
    /\ calls' = calls + 1
    /\ UNCHANGED <<timeMark, seed, bitVars, codecVars, sysVars>>
    /\ UNCHANGED cliVars

\* the setInterval callback: incrementTimestamp()
Tick ==
    /\ timeMark' = incrementTimestamp(timeMark)
    /\ UNCHANGED <<sequenceNum, seed, calls, ret, bitVars, codecVars, sysVars>>
    /\ UNCHANGED cliVars

SeqNext == GetSequenceNumber \/ Tick

SpecSeq == SeqInit /\ [][SeqNext]_vars

\* C5: in every reachable state of the Sequence/Clock Source, for every seed, the
\* counter is in 1..999; every getSequenceNumber call returns a value in 1..999
\* (never 0): the previous value plus one when that is below 999, and 1 when the
\* previous value is 999; the counter holds the value returned.
C5_SequenceRange ==
    /\ [](sequenceNum \in 1..999 /\ (calls > 0 => ret \in 1..999))
    /\ [][calls' = calls + 1 =>
            /\ ret' = IF sequenceNum < 999 THEN sequenceNum + 1 ELSE 1
            /\ sequenceNum' = ret']_vars

\* C5 witness: a call made at 999 has returned 1, and one made below 999 has been made
C5_Witness == calls = 2 /\ seed = 998 /\ ret = 1 /\ sequenceNum = 1

\* C6 (as claimed): from any valid seed, the 1000th call to getSequenceNumber returns 1
C6_ThousandthCallReturnsOne == calls = 1000 => ret = 1

\* C6 (amended): from any valid seed s, the 999th call returns s again and the
\* 1000th call returns (s mod 999) + 1, the value the first call returned, which is
\* 1 only for the seed 999; no call returns 0.
C6_ThousandthCallRepeatsFirst ==
    /\ calls = 999 => ret = seed
    /\ calls = 1000 => ret = (seed % 999) + 1 /\ (ret = 1 <=> seed = 999)
    /\ calls > 0 => ret # 0

\* C6 witness: the 1000th call has been made from a seed other than 999
C6_Witness == calls = 1000 /\ seed = 5 /\ ret = 6

(***************************************************************************)
(* SpecBits: one call of a field encoder on a chosen buffer                *)
(***************************************************************************)

\* bytes of the buffers every (offset, width) is tried on
BitsBufBytes == 3

AllZero(n) == [i \in 1..n |-> 0]
AllOne(n) == [i \in 1..n |-> 255]
Mixed(n) == [i \in 1..n |-> IF i % 2 = 1 THEN 165 ELSE 60]

\* non-negative values: narrower than, as wide as and wider than the fields
BitsValues ==
    {Num(0), Num(1), Num(5), Num(999), Num(2147483647), Pow2Num(31), OnesNum(32),
     OnesNum(33), [neg |-> FALSE, mag |-> <<1, 0, 1, 1, 0, 0, 1, 0, 1, 1, 1, 0>>]}

\* the fields of the two headers, as (offset, width)
HeaderFields ==
    {<<0, 4>>, <<30, 2>>, <<32, 32>>, <<64, 4>>, <<68, 28>>, <<4, 2>>, <<6, 26>>,
     <<64, 32>>}

\* every (offset, width) that fits a short buffer, and the header fields on 12 bytes
BitsCases ==
    {[buf |-> b, pos |-> p, size |-> w] :
        b \in {AllZero(BitsBufBytes), AllOne(BitsBufBytes), Mixed(BitsBufBytes)},
        p \in 0..(8 * BitsBufBytes - 1), w \in 1..(8 * BitsBufBytes)}
    \cup {[buf |-> b, pos |-> f[1], size |-> f[2]] :
        b \in {AllZero(HeaderBytes), AllOne(HeaderBytes), Mixed(HeaderBytes)},
        f \in HeaderFields}

BitsInit ==
    /\ \E k \in {k \in BitsCases : k.pos + k.size <= 8 * Len(k.buf)} :
          bBuf = k.buf /\ bPos = k.pos /\ bSize = k.size
    /\ bData \in BitsValues
    /\ bOp = "none"
    /\ bOut = bBuf
    /\ sequenceNum = 1 /\ timeMark = 1 /\ seed = 1 /\ calls = 0 /\ ret = 0
    /\ CodecIdle /\ SysIdle
    /\ CliIdle

\* the client's encoder: insertData(buffer, data, position, size)
CallInsertData ==
    /\ bOp = "none"
    /\ bOut' = insertData(bBuf, bData, bPos, bSize)
    /\ bOp' = "insertData"
    /\ UNCHANGED <<bBuf, bData, bPos, bSize, seqVars, codecVars, sysVars>>
    /\ UNCHANGED cliVars

\* the server's encoder: encodeBitSection(buffer, data, start, length)
CallEncodeBitSection ==
    /\ bOp = "none"
    /\ bOut' = encodeBitSection(bBuf, bData, bPos, bSize)
    /\ bOp' = "encodeBitSection"
    /\ UNCHANGED <<bBuf, bData, bPos, bSize, seqVars, codecVars, sysVars>>
    /\ UNCHANGED cliVars

BitsNext == CallInsertData \/ CallEncodeBitSection

SpecBits == BitsInit /\ [][BitsNext]_vars

\* bit i of a buffer, bit 0 being the most significant bit of the first byte
BufBit(buf, i) == (buf[(i \div 8) + 1] \div (2 ^ (7 - (i % 8)))) % 2

\* binary digit k of a non-negative value, digit 0 being the least significant
ValueBit(data, k) ==
    IF k < Len(data.mag) THEN data.mag[Len(data.mag) - k] ELSE 0

\* C4: for every buffer content, every (bitOffset, bitWidth) that fits and every
\* non-negative value (also one wider than bitWidth), insertData and
\* encodeBitSection set the bits [bitOffset, bitOffset + bitWidth) to the bitWidth
\* low-order bits of the value, most significant first, and leave every other bit
\* of the buffer as it was.
C4_BitFieldIsolation ==
    bOp # "none" =>
        /\ Len(bOut) = Len(bBuf)
        /\ \A i \in 0..(8 * Len(bBuf) - 1) :
              BufBit(bOut, i) =
                  IF i \in bPos..(bPos + bSize - 1)
                  THEN ValueBit(bData, bPos + bSize - 1 - i)
                  ELSE BufBit(bBuf, i)

\* C4 witness: a 7-bit field across a byte boundary of an all-one buffer has been
\* written by encodeBitSection with a value wider than the field
C4_Witness ==
    /\ bOp = "encodeBitSection" /\ bBuf = AllOne(BitsBufBytes)
    /\ bPos = 3 /\ bSize = 7 /\ bData = Num(999)
    /\ bOut # bBuf

(***************************************************************************)
(* Server: building a response                                             *)
(***************************************************************************)

\* imageData as preparePacket receives it: null, or a Buffer (which is truthy
\* even when it is empty)
NullData == [null |-> TRUE, bytes |-> <<>>]
Data(bytes) == [null |-> FALSE, bytes |-> bytes]

\* preparePacket, run with the counter at seqNum: the counter and the module's
\* responseDetails afterwards, and the packet returned (version, timestamp and
\* responseType are JavaScript numbers)
preparePacket(imageData, version, timestamp, responseType, seqNum) ==
    LET sequenceNumber == incrementSequence(seqNum)
        size == IF imageData.null THEN 0 ELSE Len(imageData.bytes)
        details == configure(Num(sequenceNumber), version, responseType, timestamp,
                             Num(size))
        header == assemblePacket(details)
    IN [sequenceNum |-> sequenceNumber, responseDetails |-> details,
        packet |-> IF imageData.null THEN header ELSE header \o imageData.bytes]

(***************************************************************************)
(* SpecCodec: one packet encoded by one side and decoded by the other      *)
(***************************************************************************)

\* longest file name (in characters) the codec is tried on
MaxNameLen == 2

\* a, a dot, e-acute (one byte as a char code, two in UTF-8), a CJK character
NameChars == {97, 46, 233, 20013}

Names == UNION {[1..n -> NameChars] : n \in 0..MaxNameLen}

\* 32-bit unsigned values: small, largest positive, and with the top bit set
TimeMarks ==
    {Num(0), Num(1), Num(2147483647), Pow2Num(31),
     [neg |-> FALSE, mag |-> <<1>> \o [i \in 1..28 |-> 0] \o <<1, 0, 1>>],
     OnesNum(32)}

RequestTuples ==
    [version : {0, 7, 15}, actionType : {0, 3}, timeMark : TimeMarks,
     imgType : {0, 1, 15}, fileName : Names]

Payloads == {NullData, Data(<<>>), Data(<<1>>), Data(<<255, 0, 7>>)}

ResponseTuples ==
    [sequence : {1, 500, 999}, version : {0, 7, 15}, type : {1, 2},
     time : TimeMarks, payload : Payloads]

CodecInit ==
    /\ \/ cKind = "request" /\ cIn \in RequestTuples /\ sequenceNum = 1
       \/ /\ cKind = "response" /\ cIn \in ResponseTuples
          /\ sequenceNum \in Seeds /\ incrementSequence(sequenceNum) = cIn.sequence
    /\ cWire = <<>> /\ cOut = <<>> /\ cPc = "idle"
    /\ timeMark = sequenceNum /\ seed = sequenceNum /\ calls = 0 /\ ret = 0
    /\ BitsIdle /\ SysIdle
    /\ CliIdle

\* client: RequestPacket.init(...) then RequestPacket.getBytePacket()
EncodeRequest ==
    /\ cKind = "request" /\ cPc = "idle"
    /\ cWire' = getPacket(initialize(Num(cIn.version), Num(cIn.actionType),
                                     cIn.timeMark, Num(cIn.imgType), cIn.fileName))
    /\ cPc' = "encoded"
    /\ UNCHANGED <<cKind, cIn, cOut, seqVars, bitVars, sysVars>>
    /\ UNCHANGED cliVars

\* server: extractDetails(incomingData)
DecodeRequest ==
    /\ cKind = "request" /\ cPc = "encoded"
    /\ cOut' = extractDetails(cWire)
    /\ cPc' = "decoded"
    /\ UNCHANGED <<cKind, cIn, cWire, seqVars, bitVars, sysVars>>
    /\ UNCHANGED cliVars

\* server: preparePacket(imageData, version, timestamp, responseType)
EncodeResponse ==
    /\ cKind = "response" /\ cPc = "idle"
    /\ LET r == preparePacket(cIn.payload, Num(cIn.version), cIn.time,
                              Num(cIn.type), sequenceNum)
       IN /\ cWire' = r.packet
          /\ sequenceNum' = r.sequenceNum
          /\ responseDetails' = r.responseDetails
    /\ cPc' = "encoded"
    /\ UNCHANGED <<cKind, cIn, cOut, timeMark, seed, calls, ret, bitVars,
                   files, request, inflight, accepted, originalSequenceNumber,
                   received, sent, ended, writeAfterEnd, crashed>>
    /\ UNCHANGED cliVars

\* client: the 'data' callback's processHeader(data.slice(0, 12)) and data.slice(12)
DecodeResponse ==
    /\ cKind = "response" /\ cPc = "encoded"
    /\ cOut' = [header |-> processHeader(BufferSlice(cWire, 0, HeaderBytes)),
                payload |-> BufferSlice(cWire, HeaderBytes, Len(cWire))]
    /\ cPc' = "decoded"
    /\ UNCHANGED <<cKind, cIn, cWire, seqVars, bitVars, sysVars>>
    /\ UNCHANGED cliVars

CodecNext == EncodeRequest \/ DecodeRequest \/ EncodeResponse \/ DecodeResponse

SpecCodec == CodecInit /\ [][CodecNext]_vars

\* C2 (as claimed): for every valid (version, actionType, timeMark, imgType,
\* fileName), what the server decodes from the packet the client encoder built is
\* the original version, timeMark, imgType and fileName (the server's decoder
\* has no actionType to compare).
C2_RequestRoundTrip ==
    (cKind = "request" /\ cPc = "decoded") =>
        /\ cOut.version = cIn.version
        /\ Num(cOut.timestamp) = cIn.timeMark
        /\ cOut.imageType = cIn.imgType
        /\ cOut.fileName = cIn.fileName

\* C3 (as claimed): for every valid (sequence, version, type, time, payload), the
\* empty and the absent payload included, what the client decodes from the packet
\* the server built is the original version, type, sequence, time and payload (the
\* client's decoder has no size to compare).
C3_ResponseRoundTrip ==
    (cKind = "response" /\ cPc = "decoded") =>
        /\ cOut.header.version = cIn.version
        /\ cOut.header.type = cIn.type
        /\ cOut.header.sequence = cIn.sequence
        /\ Num(cOut.header.timestamp) = cIn.time
        /\ cOut.payload = cIn.payload.bytes

(***************************************************************************)
(* Server: the per-connection handler                                      *)
(***************************************************************************)

\* fileOps.existsSync(filePath)
existsSync(fs, filePath) == filePath \in DOMAIN fs

\* the mutant: the image data is not handed on, the response is a bare header
sendImageResponse_noPayload(fs, filePath, details, seqNum) ==
    preparePacket(NullData, Num(details.version), Num(details.timestamp), Num(1),
                  seqNum)

\* sendImageResponse up to sock.write: readFileSync, then preparePacket(..., 1)
sendImageResponse(fs, filePath, details, seqNum) ==
    preparePacket(Data(fs[filePath]), Num(details.version), Num(details.timestamp),
                  Num(1), seqNum)

\* the mutant: the error response goes out with the type of an image response
sendErrorResponse_foundType(details, seqNum) ==
    preparePacket(NullData, Num(details.version), Num(details.timestamp), Num(1),
                  seqNum)

\* sendErrorResponse up to sock.write: preparePacket(null, ..., 2)
sendErrorResponse(details, seqNum) ==
    preparePacket(NullData, Num(details.version), Num(details.timestamp), Num(2),
                  seqNum)

\* handleData up to sock.write: the packet it hands to the socket, and the
\* counter and responseDetails it leaves
handleData(incomingData, seqNum, fs) ==
    LET details == extractDetails(incomingData)
        filePath == constructFilePath(details.fileName, details.imageType)
    IN IF existsSync(fs, filePath)
       THEN sendImageResponse(fs, filePath, details, seqNum)
       ELSE sendErrorResponse(details, seqNum)

(***************************************************************************)
(* Spec: clients, the transport and the server                             *)
(***************************************************************************)

Path(name, ext) == [name |-> name, ext |-> ext]

\* resource roots: a.PNG, a.unknown and an empty b.GIF; nothing; ab.PNG and a
\* file named .unknown
FileSystems ==
    {(Path(<<97>>, "PNG") :> <<137, 80, 78, 71>>) @@ (Path(<<97>>, "unknown") :> <<9>>)
        @@ (Path(<<98>>, "GIF") :> <<>>),
     <<>>,
     (Path(<<97, 98>>, "PNG") :> <<1, 2>>) @@ (Path(<<>>, "unknown") :> <<7, 7>>)}

\* the requests a client makes (action type 0, query)
SysRequests ==
    {[version |-> 7, timeMark |-> Num(5), imgType |-> 1, fileName |-> <<97>>],
     [version |-> 7, timeMark |-> OnesNum(32), imgType |-> 1, fileName |-> <<97, 98>>],
     [version |-> 15, timeMark |-> Pow2Num(31), imgType |-> 0, fileName |-> <<97>>],
     [version |-> 0, timeMark |-> Num(1), imgType |-> 5, fileName |-> <<98>>],
     [version |-> 3, timeMark |-> Num(2147483647), imgType |-> 15, fileName |-> <<97>>]}

\* where the transport may cut a request: inside the header, inside the name
CutPoints == {8, HeaderBytes + 1}

\* 'data' deliveries a request is split into at most
MaxDeliveries == 2

\* the sizes of the next delivery when n bytes are in flight and d deliveries
\* have been made: all of it, or up to a cut while another delivery may follow
DeliverySizes(n, d) ==
    {n} \cup (IF d + 1 < MaxDeliveries THEN {k \in CutPoints : k < n} ELSE {})

\* the seeds the server is started with
SysSeeds == {1, 997}

Init ==
    /\ sequenceNum \in SysSeeds
    /\ timeMark = sequenceNum
    /\ seed = sequenceNum /\ calls = 0 /\ ret = 0
    /\ BitsIdle /\ CodecIdle
    /\ responseDetails = configure(Num(0), Num(0), Num(0), Num(0), Num(0))
    /\ files \in FileSystems
    /\ request = [c \in Conns |-> <<>>]
    /\ inflight = [c \in Conns |-> <<>>]
    /\ accepted = [c \in Conns |-> FALSE]
    /\ originalSequenceNumber = [c \in Conns |-> 0]
    /\ received = [c \in Conns |-> <<>>]
    /\ sent = [c \in Conns |-> <<>>]
    /\ ended = [c \in Conns |-> FALSE]
    /\ writeAfterEnd = [c \in Conns |-> FALSE]
    /\ crashed = FALSE
    /\ CliIdle

\* manageClient(sock): a sequence number is drawn for the connection and the
\* 'data' listener is registered
ServerAccept(c) ==
    /\ ~crashed /\ ~accepted[c]
    /\ sequenceNum' = incrementSequence(sequenceNum)
    /\ originalSequenceNumber' = [originalSequenceNumber EXCEPT ![c] = sequenceNum']
    /\ accepted' = [accepted EXCEPT ![c] = TRUE]
    /\ UNCHANGED <<timeMark, seed, calls, ret, bitVars, codecVars, responseDetails,
                   files, request, inflight, received, sent, ended, writeAfterEnd,
                   crashed>>
    /\ UNCHANGED cliVars

\* the client's connect callback: client.write(RequestPacket.getBytePacket())
ClientWrite(c) ==
    /\ request[c] = <<>>
    /\ \E t \in SysRequests :
          LET packet == getPacket(initialize(Num(t.version), Num(0), t.timeMark,
                                             Num(t.imgType), t.fileName))
          IN /\ request' = [request EXCEPT ![c] = packet]
             /\ inflight' = [inflight EXCEPT ![c] = packet]
    /\ UNCHANGED <<seqVars, bitVars, codecVars, responseDetails, files, accepted,
                   originalSequenceNumber, received, sent, ended, writeAfterEnd,
                   crashed>>
    /\ UNCHANGED cliVars

\* the 'data' listener of manageClient on the next k bytes in flight: handleData,
\* sock.write(packet), sock.end().  A write after end() is refused by the socket
\* with an 'error' event, which has no listener and ends the process.
Deliver(c) ==
    /\ ~crashed /\ accepted[c] /\ inflight[c] # <<>>
    /\ \E k \in DeliverySizes(Len(inflight[c]), Len(received[c])) :
       \E r \in {handleData(SubSeq(inflight[c], 1, k), sequenceNum, files)} :
          /\ inflight' = [inflight EXCEPT ![c] = SubSeq(@, k + 1, Len(@))]
          /\ received' = [received EXCEPT ![c] = Append(@, SubSeq(inflight[c], 1, k))]
          /\ sequenceNum' = r.sequenceNum
          /\ responseDetails' = r.responseDetails
          /\ IF ended[c]
             THEN /\ writeAfterEnd' = [writeAfterEnd EXCEPT ![c] = TRUE]
                  /\ crashed' = TRUE
                  /\ UNCHANGED sent
             ELSE /\ sent' = [sent EXCEPT ![c] = Append(@, r.packet)]
                  /\ UNCHANGED <<writeAfterEnd, crashed>>
          /\ ended' = [ended EXCEPT ![c] = TRUE]
    /\ UNCHANGED <<timeMark, seed, calls, ret, bitVars, codecVars, files, request,
                   accepted, originalSequenceNumber>>
    /\ UNCHANGED cliVars

\* the setInterval callback while the server process lives
ServerTick == ~crashed /\ Tick

Next ==
    \/ \E c \in Conns : ServerAccept(c)
    \/ \E c \in Conns : ClientWrite(c)
    \/ \E c \in Conns : Deliver(c)
    \/ ServerTick

Spec == Init /\ [][Next]_vars

(***************************************************************************)
(* Reading the wire, for the properties                                    *)
(***************************************************************************)

\* the field at (offset, width) of a packet holds the non-negative integer n
FieldIs(packet, offset, width, n) ==
    \A i \in 0..(width - 1) :
        BufBit(packet, offset + i) = ValueBit(Num(n), width - 1 - i)

RECURSIVE FieldNat(_, _, _)
\* the unsigned value of a field of fewer than 31 bits
FieldNat(packet, offset, width) ==
    IF width = 0 THEN 0
    ELSE 2 * FieldNat(packet, offset, width - 1) + BufBit(packet, offset + width - 1)

\* the image type codes of the protocol's enumeration
KnownTypes == {1, 2, 3, 4, 5, 15}

\* the resource a request on the wire names: its name bytes as text, and the
\* extension of its imgType
ReqResource(req) ==
    Path(BufferToString(SubSeq(req, HeaderBytes + 1,
                               HeaderBytes + FieldNat(req, 68, 28))),
         mapTypeToExtension(FieldNat(req, 64, 4)))

\* the server has handled connection c's whole request as one delivery
Complete(c) == received[c] # <<>> /\ received[c][1] = request[c]

\* C1 (as claimed): for every request the server answers, the 32-bit time field of
\* the response on the wire equals the 32-bit timeMark field of the request on the
\* wire, values with the top bit set included.
C1_TimestampEcho ==
    \A c \in Conns :
        (Complete(c) /\ sent[c] # <<>>) =>
            SubSeq(sent[c][1], 5, 8) = SubSeq(request[c], 5, 8)

\* C7 (as claimed): for every accepted connection and every way the transport
\* splits the request into deliveries, the server sends at most one response on
\* the connection and writes nothing to it after it has ended it.
C7_AtMostOneResponse ==
    \A c \in Conns : Len(sent[c]) <= 1 /\ ~writeAfterEnd[c]

\* C8: whenever the server has received a complete request whose resource
\* <fileName>.<EXT> does not exist under the resource root, it has sent exactly one
\* response on the connection: 12 bytes, type 2, size 0, no payload.
C8_NotFoundAnswered ==
    \A c \in Conns :
        (Complete(c) /\ ReqResource(request[c]) \notin DOMAIN files) =>
            /\ Len(sent[c]) = 1
            /\ Len(sent[c][1]) = 12
            /\ FieldIs(sent[c][1], 4, 2, 2)
            /\ FieldIs(sent[c][1], 64, 32, 0)

\* C8 witness: a request for a missing PNG has been answered while the resource
\* root holds other files
C8_Witness ==
    \E c \in Conns :
        /\ Complete(c) /\ FieldNat(request[c], 64, 4) = 1
        /\ ReqResource(request[c]) \notin DOMAIN files
        /\ DOMAIN files # {}
        /\ Len(sent[c]) = 1

\* C9: whenever the server has received a complete request with a recognized
\* imgType whose resource <fileName>.<EXT> exists, the one response it has sent has
\* type 1, the request's version, size equal to the resource's byte length, total
\* length 12 + size and the resource's bytes as payload.
C9_FoundResponse ==
    \A c \in Conns :
        (/\ Complete(c)
         /\ FieldNat(request[c], 64, 4) \in KnownTypes
         /\ ReqResource(request[c]) \in DOMAIN files) =>
            /\ Len(sent[c]) = 1
            /\ FieldIs(sent[c][1], 4, 2, 1)
            /\ FieldNat(sent[c][1], 0, 4) = FieldNat(request[c], 0, 4)
            /\ FieldIs(sent[c][1], 64, 32, Len(files[ReqResource(request[c])]))
            /\ Len(sent[c][1]) = 12 + Len(files[ReqResource(request[c])])
            /\ SubSeq(sent[c][1], 13, Len(sent[c][1])) = files[ReqResource(request[c])]

\* C9 witness: a request for an existing, non-empty resource has been answered
C9_Witness ==
    \E c \in Conns :
        /\ Complete(c) /\ FieldNat(request[c], 64, 4) \in KnownTypes
        /\ ReqResource(request[c]) \in DOMAIN files
        /\ Len(files[ReqResource(request[c])]) > 0
        /\ Len(sent[c]) = 1

\* C10 (as claimed): for every request whose imgType is not one of the codes
\* 1, 2, 3, 4, 5, 15, the server answers Not Found (type 2, no payload) whatever
\* files exist under the resource root, a file <fileName>.unknown included.
C10_UnknownTypeNotFound ==
    \A c \in Conns :
        (Complete(c) /\ FieldNat(request[c], 64, 4) \notin KnownTypes) =>
            /\ Len(sent[c]) = 1
            /\ Len(sent[c][1]) = 12
            /\ FieldIs(sent[c][1], 4, 2, 2)

(***************************************************************************)
(* Client: ImageClient                                                     *)
(***************************************************************************)

RECURSIVE split(_, _)
\* str.split(sep) for a one-character separator: the parts between separators
split(str, sep) ==
    IF \A i \in 1..Len(str) : str[i] # sep THEN <<str>>
    ELSE LET k == CHOOSE i \in 1..Len(str) :
                      str[i] = sep /\ \A j \in 1..(i - 1) : str[j] # sep
         IN <<SubSeq(str, 1, k - 1)>> \o split(SubSeq(str, k + 1, Len(str)), sep)

\* str.toLowerCase() on the letters of Basic Latin and Latin-1
toLowerCase(str) ==
    [i \in 1..Len(str) |->
        IF str[i] \in 65..90 \/ (str[i] \in 192..222 /\ str[i] # 215)
        THEN str[i] + 32 ELSE str[i]]

\* the keys of determineImageType's mapping: png, bmp, tiff, jpeg, jpg, gif, raw
mapping ==
    (<<112, 110, 103>> :> 1) @@ (<<98, 109, 112>> :> 2) @@ (<<116, 105, 102, 102>> :> 3)
    @@ (<<106, 112, 101, 103>> :> 4) @@ (<<106, 112, 103>> :> 4)
    @@ (<<103, 105, 102>> :> 5) @@ (<<114, 97, 119>> :> 15)

\* determineImageType(name): the code of the text after the last dot, or 0
determineImageType(name) ==
    LET parts == split(name, 46)
        extension == toLowerCase(parts[Len(parts)])
    IN IF extension \in DOMAIN mapping THEN mapping[extension] ELSE 0

RECURSIVE DigitsValue(_)
\* the integer a sequence of fewer than 32 binary digits stands for
DigitsValue(digits) ==
    IF digits = <<>> THEN 0
    ELSE 2 * DigitsValue(SubSeq(digits, 1, Len(digits) - 1)) + digits[Len(digits)]

\* n & 0xFFFFFFFF for a non-negative integer n: its low 32 bits read as a signed
\* 32-bit integer
AndFFFFFFFF(n) ==
    LET low31 == DigitsValue([k \in 1..31 |-> ValueBit(n, 31 - k)])
    IN IF ValueBit(n, 31) = 1 THEN (low31 - 2147483647) - 1 ELSE low31

\* initRequest: the packetDetails RequestPacket.init is called with
initRequest(version, dateNow, name) ==
    initialize(Num(version), Num(0), Num(AndFFFFFFFF(dateNow)),
               Num(determineImageType(name)), split(name, 46)[1])

(***************************************************************************)
(* SpecClient: one client session against the server                       *)
(***************************************************************************)

\* the -q arguments tried: a.png, b.gif, a.xyz, a.b.png, a
ImageNames == {<<97, 46, 112, 110, 103>>, <<98, 46, 103, 105, 102>>,
               <<97, 46, 120, 121, 122>>, <<97, 46, 98, 46, 112, 110, 103>>, <<97>>}

\* the -v argument
Versions == {7}

\* Date.now() in 2026: the bits above the low 32, then 32 low bits
WallClock(low) ==
    [neg |-> FALSE,
     mag |-> <<1, 1, 0, 1, 0, 0, 0, 0, 0>> \o [k \in 1..32 |-> ValueBit(low, 32 - k)]]

\* wall-clock values whose low 32 bits are 5, 2^31, 2^31 + 5 and 2^32 - 1
WallClocks ==
    {WallClock(Num(5)), WallClock(Pow2Num(31)),
     WallClock([neg |-> FALSE, mag |-> <<1>> \o [k \in 1..28 |-> 0] \o <<1, 0, 1>>]),
     WallClock(OnesNum(32))}

\* what the client's disk holds at the path this.imageName before the session
LocalFiles == {NoFile, File(<<1, 2, 3>>)}

\* new ImageClient(...): the constructor has run up to client.connect(...)
ClientInit ==
    /\ sequenceNum \in SysSeeds
    /\ timeMark = sequenceNum
    /\ seed = sequenceNum /\ calls = 0 /\ ret = 0
    /\ BitsIdle /\ CodecIdle
    /\ responseDetails = configure(Num(0), Num(0), Num(0), Num(0), Num(0))
    /\ files \in FileSystems
    /\ request = [c \in Conns |-> <<>>]
    /\ inflight = [c \in Conns |-> <<>>]
    /\ accepted = [c \in Conns |-> FALSE]
    /\ originalSequenceNumber = [c \in Conns |-> 0]
    /\ received = [c \in Conns |-> <<>>]
    /\ sent = [c \in Conns |-> <<>>]
    /\ ended = [c \in Conns |-> FALSE]
    /\ writeAfterEnd = [c \in Conns |-> FALSE]
    /\ crashed = FALSE
    /\ imageName \in ImageNames
    /\ now \in WallClocks
    /\ cliState = "connecting"
    /\ cliWrites = <<>>
    /\ respInflight = <<>> /\ srvResponse = <<>> /\ cliData = <<>>
    /\ localFile \in LocalFiles
    /\ localFile0 = localFile
    /\ viewerCalls = 0
    /\ cliEnded = FALSE
    /\ netEvent = "none"

\* the mutant: the request is written when the socket is created and again in
\* the connect callback
Connected_writesTwice ==
    /\ cliState = "connecting"
    /\ cliState' = "open"
    /\ \E v \in Versions :
          cliWrites' = <<getPacket(initRequest(v, now, imageName)),
                         getPacket(initRequest(v, now, imageName))>>
    /\ UNCHANGED <<seqVars, bitVars, codecVars, sysVars, imageName, now, respInflight,
                   srvResponse, cliData, localFile, localFile0, viewerCalls, cliEnded,
                   netEvent>>

\* the connect callback: client.write(RequestPacket.getBytePacket())
Connected ==
    /\ cliState = "connecting"
    /\ cliState' = "open"
    /\ \E v \in Versions :
          cliWrites' = Append(cliWrites, getPacket(initRequest(v, now, imageName)))
    /\ UNCHANGED <<seqVars, bitVars, codecVars, sysVars, imageName, now, respInflight,
                   srvResponse, cliData, localFile, localFile0, viewerCalls, cliEnded,
                   netEvent>>

\* the connection is refused: the socket emits 'error', which has no listener, and
\* the process dies of the uncaught exception
ConnectRefused ==
    /\ cliState = "connecting"
    /\ cliState' = "crashed"
    /\ netEvent' = "refused"
    /\ UNCHANGED <<seqVars, bitVars, codecVars, sysVars, imageName, now, cliWrites,
                   respInflight, srvResponse, cliData, localFile, localFile0,
                   viewerCalls, cliEnded>>

\* the server's side of the session: manageClient, then handleData on the whole
\* request, sock.write(packet) and sock.end()
ServerResponds ==
    /\ cliState = "open" /\ srvResponse = <<>>
    /\ \E r \in {handleData(cliWrites[1], incrementSequence(sequenceNum), files)} :
          /\ sequenceNum' = r.sequenceNum
          /\ responseDetails' = r.responseDetails
          /\ srvResponse' = r.packet
          /\ respInflight' = r.packet
    /\ UNCHANGED <<timeMark, seed, calls, ret, bitVars, codecVars, files, request,
                   inflight, accepted, originalSequenceNumber, received, sent, ended,
                   writeAfterEnd, crashed, imageName, now, cliState, cliWrites, cliData,
                   localFile, localFile0, viewerCalls, cliEnded, netEvent>>

\* the 'data' listener of handleResponse on the next k bytes: processHeader only
\* logs; saveImage(data.slice(12)); viewer(this.imageName); client.end()
ClientData ==
    /\ cliState = "open" /\ respInflight # <<>>
    /\ \E k \in DeliverySizes(Len(respInflight), Len(cliData)) :
          LET data == SubSeq(respInflight, 1, k)
          IN /\ respInflight' = SubSeq(respInflight, k + 1, Len(respInflight))
             /\ cliData' = Append(cliData, data)
             /\ localFile' = File(BufferSlice(data, HeaderBytes, Len(data)))
    /\ viewerCalls' = viewerCalls + 1
    /\ cliEnded' = TRUE
    /\ UNCHANGED <<seqVars, bitVars, codecVars, sysVars, imageName, now, cliState,
                   cliWrites, srvResponse, localFile0, netEvent>>

\* the 'close' listener, after the server's end and all its bytes have arrived
ClientClose ==
    /\ cliState = "open" /\ srvResponse # <<>> /\ respInflight = <<>>
    /\ cliState' = "closed"
    /\ UNCHANGED <<seqVars, bitVars, codecVars, sysVars, imageName, now, cliWrites,
                   respInflight, srvResponse, cliData, localFile, localFile0,
                   viewerCalls, cliEnded, netEvent>>

\* the connection closes before the server has sent anything: only the 'close'
\* listener runs
PeerCloseEarly ==
    /\ cliState = "open" /\ srvResponse = <<>>
    /\ cliState' = "closed"
    /\ netEvent' = "closedEarly"
    /\ UNCHANGED <<seqVars, bitVars, codecVars, sysVars, imageName, now, cliWrites,
                   respInflight, srvResponse, cliData, localFile, localFile0,
                   viewerCalls, cliEnded>>

\* the connection is reset: the socket emits 'error', which has no listener, and
\* the process dies; bytes still in flight are lost
ConnReset ==
    /\ cliState = "open"
    /\ cliState' = "crashed"
    /\ netEvent' = "reset"
    /\ respInflight' = <<>>
    /\ UNCHANGED <<seqVars, bitVars, codecVars, sysVars, imageName, now, cliWrites,
                   srvResponse, cliData, localFile, localFile0, viewerCalls, cliEnded>>

ClientNext ==
    \/ Connected \/ ConnectRefused \/ ServerResponds \/ ClientData
    \/ ClientClose \/ PeerCloseEarly \/ ConnReset

SpecClient == ClientInit /\ [][ClientNext]_vars

\* C11 (as claimed): when the response the client receives has type 2 (Not
\* Found), the client writes no local file (a file already at the requested name
\* is left as it was) and does not invoke the viewer.
C11_NotFoundWritesNothing ==
    (cliData # <<>> /\ cliData[1] = srvResponse /\ FieldIs(srvResponse, 4, 2, 2)) =>
        (localFile = localFile0 /\ viewerCalls = 0)

\* C12 (as claimed): when the server sends a Found response, then for every way
\* the transport splits it into deliveries, once the client session has ended
\* the local file named after the request holds exactly the resource's bytes (the
\* response minus its 12-byte header).
C12_SplitResponseSaved ==
    (cliState = "closed" /\ netEvent = "none" /\ FieldIs(srvResponse, 4, 2, 1)) =>
        localFile = File(SubSeq(srvResponse, HeaderBytes + 1, Len(srvResponse)))

\* the bytes of a delivery are fewer than 12 + the nameLength its header declares
Truncated(data) ==
    Len(data) < HeaderBytes \/ Len(data) < HeaderBytes + FieldNat(data, 68, 28)

\* C13 (as claimed): if the bytes the server has for a request are fewer than
\* 12 + the declared nameLength (a truncated header, or a name shorter than
\* declared), the server sends no response on that connection, neither Found nor
\* Not Found, and closes it.
C13_TruncatedNoResponse ==
    \A c \in Conns :
        (received[c] # <<>> /\ Truncated(received[c][1])) =>
            (sent[c] = <<>> /\ ended[c])

RECURSIVE Utf8(_)
\* the UTF-8 bytes of a string
Utf8(str) == IF str = <<>> THEN <<>> ELSE Utf8Char(Head(str)) \o Utf8(Tail(str))

\* C14 (as claimed): for every file name, names with characters outside 7-bit
\* ASCII included, the request packet the client builds has a nameLength field
\* equal to the number of bytes the name occupies on the wire, a total length of
\* 12 + nameLength, and the complete encoded name (its UTF-8 bytes, or the bytes
\* the length was counted from) in bytes [12, 12 + nameLength).
C14_NameLengthMatchesName ==
    (cKind = "request" /\ cPc # "idle") =>
        \E encoded \in {Utf8(cIn.fileName), toByteArr(cIn.fileName)} :
            /\ FieldNat(cWire, 68, 28) = Len(encoded)
            /\ Len(cWire) = HeaderBytes + Len(encoded)
            /\ SubSeq(cWire, HeaderBytes + 1, Len(cWire)) = encoded

RECURSIVE HandledUpTo(_)
\* the 'data' deliveries the server has handled on connections 1..n: one
\* response is built for each
HandledUpTo(n) == IF n = 0 THEN 0 ELSE HandledUpTo(n - 1) + Len(received[n])

\* C15 (as claimed): the process-wide sequence counter is advanced exactly once
\* per response built and by nothing else: after any connections and requests
\* the number of advances since the server started equals the number of
\* responses built.
C15_OneAdvancePerResponse ==
    (sequenceNum - seed) % SeqModulus = HandledUpTo(MaxConns) % SeqModulus

\* C16 (as claimed): each tick of the clock changes the timestamp from t to
\* (t + 1) mod 2^32, which is t + 1 for every t below 2^32 - 1: every step that
\* changes the clock adds exactly one to it, and no such step moves the
\* sequence counter.
C16_TickAddsOne ==
    [][timeMark' # timeMark =>
          (timeMark' = timeMark + 1 /\ sequenceNum' = sequenceNum)]_vars

\* the sequence numbers the server has handed out that the state still shows:
\* the one manageClient drew for each accepted connection and the one in the
\* header of each response sent
Drawn ==
    {<<"accept", c, 0>> : c \in {d \in Conns : accepted[d]}}
        \cup UNION {{<<"response", c, i>> : i \in 1..Len(sent[c])} : c \in Conns}

DrawnNumber(a) ==
    IF a[1] = "accept" THEN originalSequenceNumber[a[2]]
    ELSE FieldNat(sent[a[2]][a[3]], 6, 26)

\* C17: every acquisition of the next sequence number is an atomic
\* increment-and-wrap: under every interleaving of the sessions' callbacks and
\* the clock's ticks no advance is lost (the counter is the seed advanced once
\* per acquisition, cyclically in 1..999) and, fewer than 999 acquisitions having
\* been made, no two acquisitions returned the same number.
C17_AtomicAcquisition ==
    /\ sequenceNum =
          ((seed - 1 + Cardinality({c \in Conns : accepted[c]})
                + HandledUpTo(MaxConns)) % SeqModulus) + 1
    /\ \A a, b \in Drawn : a # b => DrawnNumber(a) # DrawnNumber(b)

\* C17 witness: two sessions are open at once, their acquisitions interleave
\* (both connections were accepted before either request was handled), the
\* clock has ticked and the counter has wrapped from 999 to 1
C17_Witness ==
    /\ seed = 997 /\ timeMark = 0
    /\ originalSequenceNumber = <<998, 999>>
    /\ sent[1] # <<>> /\ sent[2] # <<>>
    /\ sequenceNum = 2

\* the version, type and size fields of a response are those of the request q it
\* answers and of the resource q names
OwnVersionTypeSize(p, q) ==
    /\ FieldNat(p, 0, 4) = FieldNat(q, 0, 4)
    /\ IF ReqResource(q) \in DOMAIN files
       THEN FieldIs(p, 4, 2, 1) /\ FieldIs(p, 64, 32, Len(files[ReqResource(q)]))
       ELSE FieldIs(p, 4, 2, 2) /\ FieldIs(p, 64, 32, 0)

\* C18 (as claimed): under every interleaving of the callbacks of concurrently
\* open connections, the header of the response sent on a connection carries the
\* version, time, type and size of that connection's own request and resource,
\* never those of another session.
C18_OwnRequestOnly ==
    \A c \in Conns :
        (Complete(c) /\ sent[c] # <<>>) =>
            /\ OwnVersionTypeSize(sent[c][1], request[c])
            /\ SubSeq(sent[c][1], 5, 8) = SubSeq(request[c], 5, 8)

\* the part of C18 that does not rest on the time echo of C1: version, type and
\* size are the connection's own in every interleaving
OwnFieldsExceptTime ==
    \A c \in Conns :
        (Complete(c) /\ sent[c] # <<>>) => OwnVersionTypeSize(sent[c][1], request[c])

\* C19 (as claimed): on any transport-level error of the client session
\* (connection refused, reset, or the connection closing before a response
\* arrived) the session ends as a failure that is surfaced to the caller (here: the
\* process dies of the error), writes no file, does not invoke the viewer and
\* never sends the request a second time.
C19_TransportErrorFails ==
    netEvent # "none" =>
        /\ cliState = "crashed"
        /\ localFile = localFile0
        /\ viewerCalls = 0
        /\ Len(cliWrites) <= 1

\* C20 (as claimed): for every wall-clock value t, the timeMark field the client
\* puts on the wire is the unsigned value t mod 2^32 (the low 32 binary digits of
\* t), also when bit 31 of t is set.
C20_TimeMarkUnsigned ==
    cliWrites # <<>> =>
        \A i \in 0..31 : BufBit(cliWrites[1], 32 + i) = ValueBit(now, 31 - i)

\* the positions of the dots of a name
Dots(name) == {i \in 1..Len(name) : name[i] = 46}

\* the position of the last dot of a name that has one
LastDot(name) == CHOOSE i \in Dots(name) : \A j \in Dots(name) : j <= i

\* a name without its extension: what stands before the last dot, or all of it
Stem(name) ==
    IF Dots(name) = {} THEN name ELSE SubSeq(name, 1, LastDot(name) - 1)

\* the code of a name's extension (the lower-cased text after the last dot), 0 for
\* an extension that is not enumerated and for a name that has none
ExtensionCode(name) ==
    LET ext == toLowerCase(SubSeq(name, LastDot(name) + 1, Len(name)))
    IN IF Dots(name) # {} /\ ext \in DOMAIN mapping THEN mapping[ext] ELSE 0

\* C21 (as claimed): for every requested file name, the fileName the client
\* sends is the requested name with only its extension (the part after the last
\* dot) removed, and the imgType it sends is the code of that extension; also for
\* names with several dots and for names with no dot.
C21_ExtensionStripped ==
    cliWrites # <<>> =>
        /\ SubSeq(cliWrites[1], HeaderBytes + 1, Len(cliWrites[1])) = Utf8(Stem(imageName))
        /\ FieldNat(cliWrites[1], 64, 4) = ExtensionCode(imageName)

\* the times the client has written the local file: saveImage runs once in
\* every 'data' delivery handled
FileWrites == Len(cliData)

\* the local file holds the complete payload of the server's response
PayloadSaved ==
    localFile = File(SubSeq(srvResponse, HeaderBytes + 1, Len(srvResponse)))

\* C22 (as claimed): in every client session, for any chunking of the response,
\* the file is written and the viewer is invoked at most once each, the viewer is
\* invoked only after the complete payload has been written to the local file,
\* and the client closes the connection only after that.
C22_ViewerOnceAfterPayload ==
    /\ FileWrites <= 1
    /\ viewerCalls <= 1
    /\ (srvResponse # <<>> /\ FieldIs(srvResponse, 4, 2, 1)) =>
          /\ viewerCalls > 0 => PayloadSaved
          /\ cliEnded => (viewerCalls > 0 /\ PayloadSaved)

\* C23: within a single session the request is sent before any response byte is
\* read: the client writes its request exactly once, in the step that
\* establishes the connection and not before, and the server has sent nothing, and
\* the client has read nothing, before the request was written.
C23_RequestBeforeResponse ==
    /\ [](/\ Len(cliWrites) <= 1
          /\ cliState = "connecting" => cliWrites = <<>>
          /\ cliState = "open" => Len(cliWrites) = 1
          /\ srvResponse # <<>> => Len(cliWrites) = 1
          /\ cliData # <<>> => srvResponse # <<>>)
    /\ [][cliWrites' # cliWrites =>
             /\ cliState = "connecting" /\ cliState' = "open"
             /\ srvResponse = <<>> /\ cliData = <<>>]_vars

\* C23 witness: a session has run to its end: one request written, then the
\* response read in two deliveries
C23_Witness ==
    /\ cliState = "closed" /\ netEvent = "none"
    /\ Len(cliWrites) = 1 /\ Len(cliData) = 2

\* the server's side of C23 on the connections of Spec: every packet the server
\* has sent on a connection answers a 'data' delivery it received there
NoResponseBeforeData == \A c \in Conns : Len(sent[c]) <= Len(received[c])

(***************************************************************************)
(* SpecEquiv: the two field encoders on the same arguments, negative       *)
(* values included                                                         *)
(***************************************************************************)

\* negative values: narrower than, as wide as and wider than the fields
NegativeValues ==
    {Num(-1), Num(-5), Num(-999), [neg |-> TRUE, mag |-> Pow2Num(31).mag],
     [neg |-> TRUE, mag |-> OnesNum(33).mag]}

EquivInit ==
    /\ \E k \in {k \in BitsCases : k.pos + k.size <= 8 * Len(k.buf)} :
          bBuf = k.buf /\ bPos = k.pos /\ bSize = k.size
    /\ bData \in BitsValues \cup NegativeValues
    /\ bOp = "none"
    /\ bOut = bBuf
    /\ sequenceNum = 1 /\ timeMark = 1 /\ seed = 1 /\ calls = 0 /\ ret = 0
    /\ CodecIdle /\ SysIdle
    /\ CliIdle

SpecEquiv == EquivInit /\ [][BitsNext]_vars

\* C24: insertData (which left-pads the binary string) and encodeBitSection (which
\* does not) are equivalent: for every starting buffer, every integer value
\* (narrower than, as wide as or wider than the field, negative ones included)
\* and every (offset, width) that fits, the buffer either of them leaves is the
\* buffer the other leaves.
C24_EncodersEquivalent ==
    /\ bOp = "insertData" => bOut = encodeBitSection(bBuf, bData, bPos, bSize)
    /\ bOp = "encodeBitSection" => bOut = insertData(bBuf, bData, bPos, bSize)

\* C24 witness: insertData has encoded a negative value narrower than its field
\* into an all-one buffer, so the sign character and the padding fall inside
\* the field and bits are cleared
C24_Witness ==
    /\ bOp = "insertData" /\ bData = Num(-5)
    /\ bBuf = AllOne(BitsBufBytes) /\ bPos = 3 /\ bSize = 9
    /\ bOut # bBuf

====
